---- MODULE Spec2Model ----
(***************************************************************************)
(* Joint controller of the XD6 arm (src/lib/Joint.ts) against the          *)
(* AccelStepper gateway (src/lib/Firmata.ts).                              *)
(*                                                                         *)
(* One joint (J2 of MOTOR_CONFIGS) and its stepper device are modelled.    *)
(* JavaScript numbers are kept as fixed-point integers with three          *)
(* decimals: an angle of 37.791 degrees is 37791, a step request of        *)
(* 2222.222 steps is 2222222.  The device counter is an integer number of  *)
(* steps.                                                                  *)
(*                                                                         *)
(* Every async function of Joint.ts runs synchronously up to its next      *)
(* await.  An activation that is suspended at an await is a record kept    *)
(* in the list of the event it waits for: doneL (a stepper completion),    *)
(* reportL (a position report) or timers (the 500 ms settle wait).  An     *)
(* event runs the callbacks registered for it and then the continuations   *)
(* of the activations it resumed, in registration order, inside one        *)
(* action: the event loop runs them to their next await before it takes    *)
(* the next event.                                                         *)
(***************************************************************************)
EXTENDS Integers, Sequences, FiniteSets, TLC

VARIABLES
    homed,                  \* Joint.homed
    isHoming,               \* Joint.isHoming
    homeSwitchActivate,     \* Joint.homeSwitchActivate
    degrees,                \* Joint.degrees (fixed point)
    currentSpeedInDegrees,  \* Joint.currentSpeedInDegrees (fixed point)
    currentAcceleration,    \* Joint.currentAcceleration (fixed point)
    devPos,                 \* the device's absolute step counter
    devTarget,              \* the step count the device is moving to
    devRunning,             \* the device owes a completion message
    doneL,                  \* activations waiting for a stepper completion
    reportL,                \* activations waiting for a position report
    timers,                 \* activations waiting for wait(500)
    lastEdge,               \* the last edge event delivered: none, press, release
    edges,                  \* number of edge events delivered so far
    ops,                    \* number of calls made from outside so far
    called,                 \* the last step: its call or event, what it found, what it resumed
    sent,                   \* gateway commands sent by the last step, in order
    outcomes,               \* promises settled by the last step, in order
    kin,                    \* the last call of a Kinematics function and its result
    robot,                  \* the Robot: its six joints, moveLIntervalId, its calls
    rlog,                   \* what the last step of the Robot did
    enc                     \* the rotary Encoder and what its last step emitted

jvars ==
    << homed, isHoming, homeSwitchActivate, degrees, currentSpeedInDegrees,
       currentAcceleration, devPos, devTarget, devRunning, doneL, reportL,
       timers, lastEdge, edges, ops, called, sent, outcomes >>

vars == << jvars, kin, robot, rlog, enc >>

----------------------------------------------------------------------------
(* Configuration of the joint: MOTOR_CONFIGS.J2.                           *)

STEPS_PER_REV == 40000
MAX_ACCELERATION == 5
MAX_SPEED == 30
READY_POSITION == 20
RANGE_MIN == 0
RANGE_MAX == 128
HOMING_SPEED == 4
BACKOFF_DEGREES == 15
SEEK_MARGIN == 5
FULL_TURN == 360

\* Three decimals of a JavaScript number.
Milli == 1000

Fixed(x) == x * Milli

\* Bounds of the model.
MaxCalls == 2
MaxOps == 2
MaxEdges == 3
MaxHomedOps == 3
PosCap == 15000

Abs(x) == IF x < 0 THEN 0 - x ELSE x

Sign(x) == IF x < 0 THEN 0 - 1 ELSE 1

\* convertDegreesToSteps: (degrees / 360) * STEPS_PER_REV, fixed point in,
\* fixed point out.
convertDegreesToSteps(d) ==
    Sign(d) * ((Abs(d) \div FULL_TURN) * STEPS_PER_REV
               + ((Abs(d) % FULL_TURN) * STEPS_PER_REV) \div FULL_TURN)

\* convertStepsToDegrees: (steps / STEPS_PER_REV) * 360, an integer step
\* count in, fixed point degrees out.
convertStepsToDegrees(n) ==
    Sign(n) * (((Abs(n) * FULL_TURN) \div STEPS_PER_REV) * Milli
               + (((Abs(n) * FULL_TURN) % STEPS_PER_REV) * Milli) \div STEPS_PER_REV)

\* One step of the motor in fixed-point degrees.
OneStep == convertStepsToDegrees(1)

----------------------------------------------------------------------------
(* The gateway and the device behind it.  A step request is a number; the  *)
(* wire carries an integer, which is the request truncated or rounded to   *)
(* the nearest step (o.enc).  A command that reaches a moving device finds *)
(* it where it started, half way or at its target (o.frac); commands sent  *)
(* later in the same step find it where the first one did.                 *)

Oracle == [enc : {"trunc"}, frac : {1}]

Encode(x, o) ==
    IF o.enc = "trunc"
    THEN Sign(x) * (Abs(x) \div Milli)
    ELSE Sign(x) * ((Abs(x) + (Milli \div 2)) \div Milli)

Progress(p, t, f) ==
    IF f = 0 THEN p
    ELSE IF f = 2 THEN t
    ELSE p + Sign(t - p) * (Abs(t - p) \div 2)

DevNow(s, o) ==
    IF s.devRunning /\ s.fresh
    THEN Progress(s.devPos, s.devTarget, o.frac)
    ELSE s.devPos

Cmd(op, v) == [op |-> op, v |-> v]

Send(s, c) == [s EXCEPT !.sent = Append(@, c)]

\* io.accelStepperSpeed(deviceNum, steps)
accelStepperSpeed(s, v) == Send(s, Cmd("speed", v))

\* io.accelStepperAcceleration(deviceNum, steps)
accelStepperAcceleration(s, v) == Send(s, Cmd("accel", v))

\* io.accelStepperStep(deviceNum, steps, callback): a relative move; the
\* callback is kept until the device reports a completion.
accelStepperStep(s, o, steps, cb) ==
    LET p == DevNow(s, o)
    IN  [Send(s, Cmd("step", steps)) EXCEPT
            !.devPos = p,
            !.devTarget = p + Encode(steps, o),
            !.devRunning = TRUE,
            !.fresh = FALSE,
            !.doneL = Append(@, cb)]

\* io.accelStepperTo(deviceNum, position, callback): an absolute move.
accelStepperTo(s, o, position, cb) ==
    LET p == DevNow(s, o)
    IN  [Send(s, Cmd("to", position)) EXCEPT
            !.devPos = p,
            !.devTarget = Encode(position, o),
            !.devRunning = TRUE,
            !.fresh = FALSE,
            !.doneL = Append(@, cb)]

\* io.accelStepperStop(deviceNum): the device halts where it is and reports
\* no completion for the move it drops.
accelStepperStop(s, o) ==
    LET p == DevNow(s, o)
    IN  [Send(s, Cmd("stop", 0)) EXCEPT
            !.devPos = p,
            !.devTarget = p,
            !.devRunning = FALSE,
            !.fresh = FALSE]

\* io.accelStepperZero(deviceNum): the device counter becomes 0.
accelStepperZero(s) ==
    [Send(s, Cmd("zero", 0)) EXCEPT !.devPos = 0, !.devTarget = 0]

\* io.accelStepperReportPosition(deviceNum, callback)
accelStepperReportPosition(s, cb) ==
    [Send(s, Cmd("report", 0)) EXCEPT !.reportL = Append(@, cb)]

----------------------------------------------------------------------------
(* Activations.  kind is the function called from outside (rotateTo,       *)
(* rotateBy, stop, home), from is who called it, arg its argument.  at is  *)
(* the await of home() the activation stands at (backoff, seek, stop,      *)
(* settle, ready) and pc the await inside rotateBy/rotateTo (report, move, *)
(* fence).  d, exp and prev are the locals degrees, expectedDegrees and    *)
(* previousAcceleration; acc0 records currentAcceleration at the entry of  *)
(* stop() and swSeek the limit switch when the seek move resolved.         *)

NewCall(kind, from, arg) ==
    [kind |-> kind, from |-> from, arg |-> arg, at |-> "", pc |-> "",
     d |-> 0, exp |-> 0, prev |-> 0, acc0 |-> 0, swSeek |-> FALSE]

Ok(s) == [err |-> "ok", s |-> s]

Throw(e, s) == [err |-> e, s |-> s]

\* A promise settles; the record keeps what the joint looked like then.
Settled(s, c, status, v, e) ==
    [call |-> c, status |-> status, value |-> v, err |-> e,
     acc |-> s.currentAcceleration, nsent |-> Len(s.sent)]

Resolve(s, c, v) ==
    [s EXCEPT !.outcomes = Append(@, Settled(s, c, "resolved", v, "ok"))]

Reject(s, c, e) ==
    [s EXCEPT !.outcomes = Append(@, Settled(s, c, "rejected", FALSE, e))]

\* `await r` inside activation c: an exception rejects c's promise.
Await(r, c) == IF r.err = "ok" THEN r.s ELSE Reject(r.s, c, r.err)

\* Joint.setSpeed
setSpeed(s, speedInDegrees) ==
    [accelStepperSpeed(s, convertDegreesToSteps(speedInDegrees))
        EXCEPT !.currentSpeedInDegrees = speedInDegrees]

\* Joint.setAcceleration
setAcceleration(s, accelerationInDegrees) ==
    [accelStepperAcceleration(s, convertDegreesToSteps(accelerationInDegrees))
        EXCEPT !.currentAcceleration = accelerationInDegrees]

\* Joint.resetSpeedAndAcceleration
resetSpeedAndAcceleration(s) ==
    setAcceleration(setSpeed(s, Fixed(MAX_SPEED)), Fixed(MAX_ACCELERATION))

\* ensureHomed without its throw.
ensureHomedLax(s) == "ok"

\* Joint.ensureHomed: "ok" or the error it throws.
ensureHomed(s) ==
    IF s.isHoming THEN "ok"
    ELSE IF ~s.homed THEN "NotHomed"
    ELSE "ok"

\* ensureInRange that tests the upper limit only.
ensureInRangeUpperOnly(s, targetDegrees) ==
    IF s.isHoming THEN "ok"
    ELSE IF targetDegrees > Fixed(RANGE_MAX) THEN "OutOfRange"
    ELSE "ok"

\* Joint.ensureInRange: "ok" or the error it throws.
ensureInRange(s, targetDegrees) ==
    IF s.isHoming THEN "ok"
    ELSE IF targetDegrees < Fixed(RANGE_MIN) \/ targetDegrees > Fixed(RANGE_MAX)
         THEN "OutOfRange"
    ELSE "ok"

\* step without the special case for 0 steps.
stepAlwaysChecks(s, o, steps, cb) ==
    IF ensureHomed(s) # "ok"
    THEN Throw(ensureHomed(s), s)
    ELSE Ok(accelStepperStep(s, o, steps, cb))

\* Joint.step
step(s, o, steps, cb) ==
    IF steps # 0 /\ ensureHomed(s) # "ok"
    THEN Throw(ensureHomed(s), s)
    ELSE Ok(accelStepperStep(s, o, steps, cb))

\* Joint.stepTo
stepTo(s, o, position, cb) ==
    IF ensureHomed(s) # "ok"
    THEN Throw(ensureHomed(s), s)
    ELSE Ok(accelStepperTo(s, o, position, cb))

\* Joint.reportDegrees: the request; the reply is ReportPosition below.
reportDegrees(s, cb) == accelStepperReportPosition(s, cb)

\* Joint.rotateBy up to its first await.
rotateBy(s, o, d, c) ==
    IF d = 0
    THEN step(s, o, 0, [c EXCEPT !.pc = "fence", !.d = 0])
    ELSE IF ensureHomed(s) # "ok"
         THEN Throw(ensureHomed(s), s)
    ELSE Ok(reportDegrees(s, [c EXCEPT !.pc = "report", !.d = d]))

\* Joint.rotateBy from the reply of reportDegrees to the posting of the step.
rotateByReported(s, o, c, reported) ==
    LET expectedDegrees == c.d + reported
    IN  IF ensureInRange(s, expectedDegrees) # "ok"
        THEN Throw(ensureInRange(s, expectedDegrees), s)
        ELSE step(s, o, convertDegreesToSteps(c.d),
                  [c EXCEPT !.pc = "move", !.exp = expectedDegrees])

\* Joint.rotateTo up to its await.
rotateTo(s, o, deg, c) ==
    IF ensureHomed(s) # "ok"
    THEN Throw(ensureHomed(s), s)
    ELSE IF ensureInRange(s, deg) # "ok"
         THEN Throw(ensureInRange(s, deg), s)
    ELSE stepTo(s, o, convertDegreesToSteps(deg),
                [c EXCEPT !.pc = "move", !.exp = deg])

\* setPositionZero that also sets degrees to 0.
setPositionZeroAndDegrees(s) == [accelStepperZero(s) EXCEPT !.degrees = 0]

\* Joint.setPositionZero
setPositionZero(s) == accelStepperZero(s)

\* stop that reads currentAcceleration after it has set it to 0.
stopSavesLate(s, o, c) ==
    LET s2 == setAcceleration(accelStepperStop(s, o), 0)
        previousAcceleration == s2.currentAcceleration
    IN  rotateBy(s2, o, 0,
                 [c EXCEPT !.prev = previousAcceleration,
                           !.acc0 = s.currentAcceleration]).s

\* stop that restores the acceleration before it posts the fence.
stopRestoresEarly(s, o, c) ==
    LET s1 == accelStepperStop(s, o)
        previousAcceleration == s1.currentAcceleration
        s2 == setAcceleration(setAcceleration(s1, 0), previousAcceleration)
    IN  rotateBy(s2, o, 0,
                 [c EXCEPT !.prev = previousAcceleration,
                           !.acc0 = s.currentAcceleration]).s

\* Joint.stop up to `await this.rotateBy(0)`.
stop(s, o, c) ==
    LET s1 == accelStepperStop(s, o)
        previousAcceleration == s1.currentAcceleration
        s2 == setAcceleration(s1, 0)
    IN  rotateBy(s2, o, 0,
                 [c EXCEPT !.prev = previousAcceleration,
                           !.acc0 = s.currentAcceleration]).s

\* Joint.stop after the await.
stopFenced(s, c) == setAcceleration(s, c.prev)

\* home that seeks whatever the limit switch says.
homeSeeksWhenPressed(s, o, c) ==
    LET s1 == [s EXCEPT !.isHoming = TRUE]
        s2 == setAcceleration(setSpeed(s1, Fixed(HOMING_SPEED)), 0)
        maxRange == Fixed(RANGE_MAX + SEEK_MARGIN)
    IN  Await(rotateBy(s2, o, 0 - maxRange, [c EXCEPT !.at = "seek"]), c)

\* Joint.home from its entry to its first await; the recursive
\* `await this.home()` after the back-off re-enters here.
home(s, o, c) ==
    LET s1 == [s EXCEPT !.isHoming = TRUE]
    IN  IF s1.homeSwitchActivate
        THEN Await(rotateBy(s1, o, Fixed(BACKOFF_DEGREES),
                            [c EXCEPT !.at = "backoff"]), c)
        ELSE LET s2 == setAcceleration(setSpeed(s1, Fixed(HOMING_SPEED)), 0)
                 maxRange == Fixed(RANGE_MAX + SEEK_MARGIN)
             IN  Await(rotateBy(s2, o, 0 - maxRange,
                                [c EXCEPT !.at = "seek"]), c)

\* home that leaves homed as it was when the switch was not reached.
homeStoppedKeepsHomed(s, c) ==
    LET s1 == setPositionZero(resetSpeedAndAcceleration(stopFenced(s, c)))
    IN  IF s1.homeSwitchActivate
        THEN [s1 EXCEPT !.homed = TRUE,
                        !.timers = Append(@, [c EXCEPT !.at = "settle", !.pc = "wait"])]
        ELSE Reject(s1, c, "HomingFailed")

\* Joint.home after `await this.stop()`: lines 399-419.
homeStopped(s, c) ==
    LET s1 == setPositionZero(resetSpeedAndAcceleration(stopFenced(s, c)))
    IN  IF s1.homeSwitchActivate
        THEN [s1 EXCEPT !.homed = TRUE,
                        !.timers = Append(@, [c EXCEPT !.at = "settle", !.pc = "wait"])]
        ELSE Reject([s1 EXCEPT !.homed = FALSE], c, "HomingFailed")

\* Joint.home after `await wait(500)`.
homeSettled(s, o, c) ==
    Await(rotateTo(s, o, Fixed(READY_POSITION), [c EXCEPT !.at = "ready"]), c)

\* Joint.home after `await this.rotateTo(this.READY_POSITION)`.
homeReady(s, c) == Resolve([s EXCEPT !.isHoming = FALSE], c, TRUE)

\* The callback of a completed move stores the reported position.
SetsDegrees(c) == c.pc = "move"

\* The continuation of activation c after the completion it waited for.
DoneResume(s, o, c) ==
    IF c.kind = "home"
    THEN IF c.at = "backoff" THEN home(s, o, c)
         ELSE IF c.at = "seek"
              THEN stop(s, o, [c EXCEPT !.at = "stop",
                                        !.swSeek = s.homeSwitchActivate])
         ELSE IF c.at = "stop" THEN homeStopped(s, c)
         ELSE homeReady(s, c)
    ELSE IF c.kind = "stop" THEN Resolve(stopFenced(s, c), c, TRUE)
    ELSE IF c.pc = "fence" THEN Resolve(s, c, TRUE)
    ELSE Resolve(s, c, c.exp = s.degrees)

\* The continuation of activation c after the reply of reportDegrees.
ReportResume(s, o, c, reported) == Await(rotateByReported(s, o, c, reported), c)

RECURSIVE RunDone(_, _, _)
RunDone(s, o, cs) ==
    IF cs = <<>> THEN s
    ELSE RunDone(DoneResume(s, o, Head(cs)), o, Tail(cs))

RECURSIVE RunReport(_, _, _, _)
RunReport(s, o, cs, reported) ==
    IF cs = <<>> THEN s
    ELSE RunReport(ReportResume(s, o, Head(cs), reported), o, Tail(cs), reported)

----------------------------------------------------------------------------
(* The state machine.                                                      *)

\* The state a step starts from: nothing sent or settled yet.
Cur ==
    [homed |-> homed, isHoming |-> isHoming,
     homeSwitchActivate |-> homeSwitchActivate, degrees |-> degrees,
     currentSpeedInDegrees |-> currentSpeedInDegrees,
     currentAcceleration |-> currentAcceleration,
     devPos |-> devPos, devTarget |-> devTarget, devRunning |-> devRunning,
     doneL |-> doneL, reportL |-> reportL, timers |-> timers,
     sent |-> <<>>, outcomes |-> <<>>, fresh |-> TRUE]

\* The joint's fields as a step finds them.
(* The rotary Encoder (src/lib/Encoder.js).  The record holds the fields of *)
(* the object; emitted lists the values of the 'change' events of the last *)
(* step, op and pre say what the last step was and what it found, inits    *)
(* counts the runs of initializeEncoder, and run is the number of valid    *)
(* transitions in one direction that ended with the last step, signed,     *)
(* counted from the last initialisation, reset or 'change'; prev is the    *)
(* value of the last 'change' emitted before the last step, if any.        *)

TRANSITIONS_PER_DETENT == 4

MaxCount == 5
MaxResets == 2

\* DELTA_LOOKUP, keyed by (lastEncoded << 2) | encoded.
DELTA_LOOKUP ==
    [k \in {1, 7, 14, 8, 2, 11, 13, 4} |-> IF k \in {1, 7, 14, 8} THEN 1 ELSE 0 - 1]

\* Math.floor(a / b) for b > 0.
Floor(a, b) == IF a >= 0 THEN a \div b ELSE 0 - ((b - 1 - a) \div b)

\* (aValue << 1) | bValue
Encoded(e) == 2 * e.aValue + e.bValue

\* The fields of the Encoder object.
EncoderFields(e) ==
    [detentPosition |-> e.detentPosition, transitionCount |-> e.transitionCount,
     lastEncoded |-> e.lastEncoded, aValue |-> e.aValue, bValue |-> e.bValue,
     initialReadsComplete |-> e.initialReadsComplete,
     isInitialized |-> e.isInitialized]

\* The Encoder after its constructor.
NewEncoder ==
    [detentPosition |-> 0, transitionCount |-> 0, lastEncoded |-> 0,
     aValue |-> 0, bValue |-> 0,
     initialReadsComplete |-> [a |-> FALSE, b |-> FALSE],
     isInitialized |-> FALSE,
     emitted |-> <<>>, inits |-> 0, run |-> 0, resets |-> 0, op |-> "new",
     prev |-> <<>>,
     pre |-> [detentPosition |-> 0, transitionCount |-> 0, lastEncoded |-> 0,
              aValue |-> 0, bValue |-> 0,
              initialReadsComplete |-> [a |-> FALSE, b |-> FALSE],
              isInitialized |-> FALSE]]

\* this.emit("change", v)
emitChange(e, v) == [e EXCEPT !.emitted = Append(@, v)]

\* Encoder.initializeEncoder
initializeEncoder(e) ==
    emitChange([e EXCEPT !.lastEncoded = Encoded(e), !.detentPosition = 0,
                         !.transitionCount = 0, !.isInitialized = TRUE,
                         !.inits = @ + 1], 0)

\* update that emits 'change' at every read of an initialised Encoder.
updateEmitsEveryRead(e) ==
    IF ~e.isInitialized THEN e
    ELSE IF Encoded(e) = e.lastEncoded THEN emitChange(e, e.detentPosition)
    ELSE LET transitionValue == 4 * e.lastEncoded + Encoded(e)
         IN  IF transitionValue \notin DOMAIN DELTA_LOOKUP
             THEN emitChange(e, e.detentPosition)
             ELSE LET delta == DELTA_LOOKUP[transitionValue]
                      e1 == [e EXCEPT !.transitionCount = @ + delta,
                                      !.lastEncoded = Encoded(e)]
                      newDetentPosition == Floor(e1.transitionCount, TRANSITIONS_PER_DETENT)
                  IN  emitChange([e1 EXCEPT !.detentPosition = newDetentPosition],
                                 newDetentPosition)

\* Encoder.update
update(e) ==
    IF ~e.isInitialized THEN e
    ELSE IF Encoded(e) = e.lastEncoded THEN e
    ELSE LET transitionValue == 4 * e.lastEncoded + Encoded(e)
         IN  IF transitionValue \notin DOMAIN DELTA_LOOKUP THEN e
             ELSE LET delta == DELTA_LOOKUP[transitionValue]
                      e1 == [e EXCEPT !.transitionCount = @ + delta,
                                      !.lastEncoded = Encoded(e)]
                      newDetentPosition == Floor(e1.transitionCount, TRANSITIONS_PER_DETENT)
                  IN  IF newDetentPosition # e.detentPosition
                      THEN emitChange([e1 EXCEPT !.detentPosition = newDetentPosition],
                                      newDetentPosition)
                      ELSE e1

\* handlePinRead that initialises at the first read of either pin.
handlePinReadFirstRead(e, pin) ==
    LET e1 == IF pin = "a" THEN [e EXCEPT !.initialReadsComplete.a = TRUE]
              ELSE [e EXCEPT !.initialReadsComplete.b = TRUE]
    IN  IF ~e1.isInitialized THEN initializeEncoder(e1) ELSE update(e1)

\* Encoder.handlePinRead
handlePinRead(e, pin) ==
    LET e1 == IF pin = "a" THEN [e EXCEPT !.initialReadsComplete.a = TRUE]
              ELSE IF pin = "b" THEN [e EXCEPT !.initialReadsComplete.b = TRUE]
              ELSE e
    IN  IF e1.initialReadsComplete.a /\ e1.initialReadsComplete.b /\ ~e1.isInitialized
        THEN initializeEncoder(e1)
        ELSE IF e1.isInitialized THEN update(e1)
        ELSE e1

\* The callbacks the constructor gives to board.digitalRead.
digitalRead(e, pin, value) ==
    handlePinRead(IF pin = "a" THEN [e EXCEPT !.aValue = value]
                  ELSE [e EXCEPT !.bValue = value], pin)

\* reset that emits 'change' whatever the position was.
resetAlwaysEmits(e) ==
    emitChange([e EXCEPT !.transitionCount = 0, !.detentPosition = 0], 0)

\* reset that leaves transitionCount as it was.
resetKeepsCount(e) ==
    LET oldDetentPosition == e.detentPosition
        e1 == [e EXCEPT !.detentPosition = 0]
    IN  IF oldDetentPosition # 0 THEN emitChange(e1, 0) ELSE e1

\* Encoder.reset
reset(e) ==
    LET oldDetentPosition == e.detentPosition
        e1 == [e EXCEPT !.transitionCount = 0, !.detentPosition = 0]
    IN  IF oldDetentPosition # 0 THEN emitChange(e1, 0) ELSE e1

----------------------------------------------------------------------------
Pre ==
    [homed |-> homed, isHoming |-> isHoming,
     homeSwitchActivate |-> homeSwitchActivate, degrees |-> degrees,
     currentAcceleration |-> currentAcceleration]

NCalls(s) == Len(s.doneL) + Len(s.reportL) + Len(s.timers)

InReach(s) == Abs(s.devPos) <= PosCap /\ Abs(s.devTarget) <= PosCap

Commit(s, op, arg, ran) ==
    /\ InReach(s)
    /\ homed' = s.homed
    /\ isHoming' = s.isHoming
    /\ homeSwitchActivate' = s.homeSwitchActivate
    /\ degrees' = s.degrees
    /\ currentSpeedInDegrees' = s.currentSpeedInDegrees
    /\ currentAcceleration' = s.currentAcceleration
    /\ devPos' = s.devPos
    /\ devTarget' = s.devTarget
    /\ devRunning' = s.devRunning
    /\ doneL' = s.doneL
    /\ reportL' = s.reportL
    /\ timers' = s.timers
    /\ sent' = s.sent
    /\ outcomes' = s.outcomes
    /\ called' = [op |-> op, arg |-> arg, pre |-> Pre, ran |-> ran]
    /\ UNCHANGED << kin, robot, rlog, enc >>

\* The arguments calls from outside are made with.
Targets ==
    {Fixed(RANGE_MIN) - Milli, Fixed(READY_POSITION), Fixed(RANGE_MAX) + Milli}

Deltas == {0, Fixed(BACKOFF_DEGREES), 0 - Fixed(BACKOFF_DEGREES)}

Speeds == {Fixed(HOMING_SPEED)}

Accelerations == {Fixed(MAX_ACCELERATION) \div 2}

\* No Kinematics function has been called yet.
KinNew == [op |-> "new"]

\* No Robot has been constructed.
NoRobot == [op |-> "none"]

NewLog == [op |-> "new"]

\* The constructor: initializeStepper sets speed and acceleration to their
\* maxima; nothing is homed and the device counter is 0.
JointInit ==
    /\ homed = FALSE
    /\ isHoming = FALSE
    /\ homeSwitchActivate = FALSE
    /\ degrees = 0
    /\ currentSpeedInDegrees = Fixed(MAX_SPEED)
    /\ currentAcceleration = Fixed(MAX_ACCELERATION)
    /\ devPos = 0
    /\ devTarget = 0
    /\ devRunning = FALSE
    /\ doneL = <<>>
    /\ reportL = <<>>
    /\ timers = <<>>
    /\ lastEdge = "none"
    /\ edges = 0
    /\ ops = 0
    /\ called = [op |-> "new", arg |-> 0, pre |-> Pre, ran |-> <<>>]
    /\ sent = <<>>
    /\ outcomes = <<>>

Init ==
    /\ JointInit
    /\ kin = KinNew
    /\ robot = NoRobot
    /\ rlog = NewLog
    /\ enc = NewEncoder

CanCall == ops < MaxOps /\ NCalls(Cur) < MaxCalls

FromOutside == ops' = ops + 1 /\ UNCHANGED << lastEdge, edges >>

FromInside == UNCHANGED << lastEdge, edges, ops >>

CallSetSpeed ==
    /\ ops < MaxOps
    /\ \E v \in Speeds : Commit(setSpeed(Cur, v), "setSpeed", v, <<>>)
    /\ FromOutside

CallSetAcceleration ==
    /\ ops < MaxOps
    /\ \E a \in Accelerations : Commit(setAcceleration(Cur, a), "setAcceleration", a, <<>>)
    /\ FromOutside

CallRotateTo ==
    /\ CanCall
    /\ \E x \in Targets, o \in Oracle :
          LET c == NewCall("rotateTo", "user", x)
          IN  Commit(Await(rotateTo(Cur, o, x, c), c), "rotateTo", x, <<>>)
    /\ FromOutside

CallRotateBy ==
    /\ CanCall
    /\ \E d \in Deltas, o \in Oracle :
          LET c == NewCall("rotateBy", "user", d)
          IN  Commit(Await(rotateBy(Cur, o, d, c), c), "rotateBy", d, <<>>)
    /\ FromOutside

CallStop ==
    /\ CanCall
    /\ \E o \in Oracle : Commit(stop(Cur, o, NewCall("stop", "user", 0)), "stop", 0, <<>>)
    /\ FromOutside

CallHome ==
    /\ CanCall
    /\ \E o \in Oracle : Commit(home(Cur, o, NewCall("home", "user", 0)), "home", 0, <<>>)
    /\ FromOutside

\* A press handler that also declares the joint homed.
onHomeSwitchActivateHomes(s, o) ==
    stop([s EXCEPT !.homeSwitchActivate = TRUE, !.homed = TRUE], o,
         NewCall("stop", "press", 0))

\* A press handler that stops the motor only while homing.
onHomeSwitchActivateWhenHoming(s, o) ==
    IF s.isHoming
    THEN stop([s EXCEPT !.homeSwitchActivate = TRUE], o, NewCall("stop", "press", 0))
    ELSE [s EXCEPT !.homeSwitchActivate = TRUE]

\* Joint.onHomeSwitchActivate: the "press" edge of the limit switch.
onHomeSwitchActivate(s, o) ==
    stop([s EXCEPT !.homeSwitchActivate = TRUE], o, NewCall("stop", "press", 0))

\* Joint.onHomeSwitchDeactivate: the "release" edge.
onHomeSwitchDeactivate(s) == [s EXCEPT !.homeSwitchActivate = FALSE]

Press ==
    /\ ~homeSwitchActivate
    /\ edges < MaxEdges
    /\ NCalls(Cur) < MaxCalls
    /\ \E o \in Oracle : Commit(onHomeSwitchActivate(Cur, o), "press", 0, <<>>)
    /\ lastEdge' = "press"
    /\ edges' = edges + 1
    /\ UNCHANGED ops

Release ==
    /\ homeSwitchActivate
    /\ edges < MaxEdges
    /\ Commit(onHomeSwitchDeactivate(Cur), "release", 0, <<>>)
    /\ lastEdge' = "release"
    /\ edges' = edges + 1
    /\ UNCHANGED ops

\* The device reaches its target and reports the completion with its
\* counter; every callback registered for the device runs, then the
\* continuations.
Completion ==
    /\ devRunning
    /\ \E o \in Oracle :
          LET s0 == [Cur EXCEPT !.devPos = devTarget, !.devRunning = FALSE,
                                !.doneL = <<>>, !.fresh = FALSE]
              s1 == IF \E i \in 1..Len(doneL) : SetsDegrees(doneL[i])
                    THEN [s0 EXCEPT !.degrees = convertStepsToDegrees(devTarget)]
                    ELSE s0
          IN  Commit(RunDone(s1, o, doneL), "completion", devTarget, doneL)
    /\ FromInside

\* The device answers a position request with its counter.
ReportPosition ==
    /\ reportL # <<>>
    /\ \E o \in Oracle :
          LET p == DevNow(Cur, o)
              s0 == [Cur EXCEPT !.devPos = p, !.reportL = <<>>]
          IN  Commit(RunReport(s0, o, reportL, convertStepsToDegrees(p)),
                     "report", p, reportL)
    /\ FromInside

\* wait(500) of the oldest settling home() elapses.
Timeout ==
    /\ timers # <<>>
    /\ \E o \in Oracle :
          Commit(homeSettled([Cur EXCEPT !.timers = Tail(@)], o, Head(timers)),
                 "timeout", 0, << Head(timers) >>)
    /\ FromInside

Next ==
    \/ CallSetSpeed
    \/ CallSetAcceleration
    \/ CallRotateTo
    \/ CallRotateBy
    \/ CallStop
    \/ CallHome
    \/ Press
    \/ Release
    \/ Completion
    \/ ReportPosition
    \/ Timeout

Spec == Init /\ [][Next]_vars

----------------------------------------------------------------------------
(* The joint after its home() has resolved: homed, at the ready position,  *)
(* the limit switch still pressed, nothing outstanding.  From there        *)
(* rotateBy is called, also while earlier calls are in flight; ops counts  *)
(* these calls.                                                            *)

HomedInit ==
    /\ homed = TRUE
    /\ isHoming = FALSE
    /\ homeSwitchActivate = TRUE
    /\ devPos = Encode(convertDegreesToSteps(Fixed(READY_POSITION)), [enc |-> "trunc", frac |-> 1])
    /\ degrees = convertStepsToDegrees(devPos)
    /\ currentSpeedInDegrees = Fixed(MAX_SPEED)
    /\ currentAcceleration = Fixed(MAX_ACCELERATION)
    /\ devTarget = devPos
    /\ devRunning = FALSE
    /\ doneL = <<>>
    /\ reportL = <<>>
    /\ timers = <<>>
    /\ lastEdge = "press"
    /\ edges = 1
    /\ ops = 0
    /\ called = [op |-> "new", arg |-> 0, pre |-> Pre, ran |-> <<>>]
    /\ sent = <<>>
    /\ outcomes = <<>>
    /\ kin = KinNew
    /\ robot = NoRobot
    /\ rlog = NewLog
    /\ enc = NewEncoder

\* The relative moves asked of the homed joint, in degrees.
HomedDeltas == {0 - 15, 0 - 10, 0 - 4, 10, 15}

CallRotateByHomed ==
    /\ ops < MaxHomedOps
    /\ NCalls(Cur) < MaxCalls
    /\ \E d \in HomedDeltas, o \in Oracle :
          LET c == NewCall("rotateBy", "user", Fixed(d))
          IN  Commit(Await(rotateBy(Cur, o, Fixed(d), c), c), "rotateBy", Fixed(d), <<>>)
    /\ FromOutside

NextHomed == CallRotateByHomed \/ ReportPosition \/ Completion

SpecHomed == HomedInit /\ [][NextHomed]_vars

----------------------------------------------------------------------------
(* Kinematics (src/lib/kinematics.ts).  Angles are fixed-point degrees.     *)
(* The values of Math.atan, atan2 and acos are not computed: getJ1Angle     *)
(* takes its arc tangent from a table of the ratios its inputs can form,    *)
(* and inverseKinematics receives the angles thetaB, thetaC, thetaD and the *)
(* wrist angles of configuration "F" as inputs g and applies the code's     *)
(* branches, its wrist flip and its range checks to them.  An acos outside  *)
(* its domain is NaN.                                                       *)

NaN == 999999999

HALF_TURN == 180

QUARTER_TURN == 90

\* thetaE = atan2(J3.a, J4.d) with J3.a = 0 and J4.d = 227.328.
thetaE == 0

Plus(a, b) == IF a = NaN \/ b = NaN THEN NaN ELSE a + b

Neg(a) == IF a = NaN THEN NaN ELSE 0 - a

\* Math.atan(n / d) in fixed-point degrees for 0 <= n, 0 < d and the ratios
\* 0, 1/2, 1 and 2.
AtanOfRatio(n, d) ==
    IF n = 0 THEN 0
    ELSE IF 2 * n = d THEN 26565
    ELSE IF n = d THEN 45000
    ELSE 63435

\* Math.atan(y / x) * (180 / Math.PI), x # 0.
AtanDeg(y, x) == Sign(y) * Sign(x) * AtanOfRatio(Abs(y), Abs(x))

\* Kinematics.getJ1Angle
getJ1Angle(x, y) ==
    IF x = 0 THEN 0 - Fixed(QUARTER_TURN)
    ELSE IF x >= 0 /\ y > 0 THEN AtanDeg(y, x)
    ELSE IF x >= 0 /\ y < 0 THEN AtanDeg(y, x)
    ELSE IF x < 0 /\ y <= 0 THEN (0 - Fixed(HALF_TURN)) + AtanDeg(y, x)
    ELSE IF x <= 0 /\ y > 0 THEN Fixed(HALF_TURN) + AtanDeg(y, x)
    ELSE 0

\* JOINT_CONFIGS[name].RANGE of J1..J6: the tables the model is run with.
RangeTables ==
    { << <<0, 105>>, <<0, 128>>, <<0, 140>>, <<0, 325>>, <<0, 180>>, <<0, 330>> >>,
      << <<-170, 170>>, <<-42, 90>>, <<-89, 52>>, <<-165, 165>>, <<-105, 105>>,
         <<-155, 155>> >> }

\* Kinematics.ensureInRange: every angle lies in the range of its joint.
KinEnsureInRange(ranges, jointAngles) ==
    \A i \in 1..Len(jointAngles) :
        /\ jointAngles[i] # NaN
        /\ jointAngles[i] >= Fixed(ranges[i][1])
        /\ jointAngles[i] <= Fixed(ranges[i][2])

\* getJ2Angle: L1 > 0 is wristCenterXRotated > J1.a, and thetaB =
\* atan2(L1, L4) tells the signs of L1 and L4.
getJ2Angle(g) ==
    IF g.thetaB > 0 /\ g.thetaB < Fixed(HALF_TURN)
    THEN IF Abs(g.thetaB) < Fixed(QUARTER_TURN)
         THEN Plus(g.thetaB, Neg(g.thetaC))
         ELSE Plus(Plus(g.thetaB, Neg(g.thetaC)), Fixed(HALF_TURN))
    ELSE Neg(Plus(g.thetaB, g.thetaC))

\* atan2(-y, -x) from atan2(y, x), in degrees.
Opposite(a) ==
    IF a > 0 THEN a - Fixed(HALF_TURN)
    ELSE IF a = 0 THEN 0 - Fixed(HALF_TURN)
    ELSE a + Fixed(HALF_TURN)

\* get456Angles for a wrist configuration.
get456Angles(g, wristConfig) ==
    IF wristConfig = "F"
    THEN << g.q4, g.q5, g.q6 >>
    ELSE << Opposite(g.q4), 0 - g.q5, Opposite(g.q6) >>

Toggle(wristConfig) == IF wristConfig = "F" THEN "NF" ELSE "F"

\* inverseKinematics that validates the wrist angles only.
inverseKinematicsWristOnly(ranges, g, wristConfig) ==
    LET first == get456Angles(g, wristConfig)
        flip == ~KinEnsureInRange(ranges, << 0, 0, 0 >> \o first)
        wrist == IF flip THEN get456Angles(g, Toggle(wristConfig)) ELSE first
        angles == << getJ1Angle(g.x, g.y), getJ2Angle(g),
                     Plus(Neg(Plus(g.thetaD, thetaE)), Fixed(QUARTER_TURN)) >> \o wrist
    IN  IF ~KinEnsureInRange(ranges, << 0, 0, 0 >> \o wrist)
        THEN [err |-> "OutOfRange", degrees |-> << >>, flipped |-> flip]
        ELSE [err |-> "ok", degrees |-> angles, flipped |-> flip]

\* inverseKinematics that decides the flip on all six angles.
inverseKinematicsFlipOnAnyJoint(ranges, g, wristConfig) ==
    LET J1AngleDeg == getJ1Angle(g.x, g.y)
        J2AngleDeg == getJ2Angle(g)
        J3AngleDeg == Plus(Neg(Plus(g.thetaD, thetaE)), Fixed(QUARTER_TURN))
        first == get456Angles(g, wristConfig)
        flip == ~KinEnsureInRange(ranges, << J1AngleDeg, J2AngleDeg, J3AngleDeg >> \o first)
        wrist == IF flip THEN get456Angles(g, Toggle(wristConfig)) ELSE first
        angles == << J1AngleDeg, J2AngleDeg, J3AngleDeg >> \o wrist
    IN  IF ~KinEnsureInRange(ranges, angles)
        THEN [err |-> "OutOfRange", degrees |-> << >>, flipped |-> flip]
        ELSE [err |-> "ok", degrees |-> angles, flipped |-> flip]

\* Kinematics.inverseKinematics from the wrist centre on.
inverseKinematics(ranges, g, wristConfig) ==
    LET J1AngleDeg == getJ1Angle(g.x, g.y)
        J2AngleDeg == getJ2Angle(g)
        J3AngleDeg == Plus(Neg(Plus(g.thetaD, thetaE)), Fixed(QUARTER_TURN))
        first == get456Angles(g, wristConfig)
        flip == ~KinEnsureInRange(ranges, << 0, 0, 0 >> \o first)
        wrist == IF flip THEN get456Angles(g, Toggle(wristConfig)) ELSE first
        angles == << J1AngleDeg, J2AngleDeg, J3AngleDeg >> \o wrist
    IN  IF ~KinEnsureInRange(ranges, angles)
        THEN [err |-> "OutOfRange", degrees |-> << >>, flipped |-> flip]
        ELSE [err |-> "ok", degrees |-> angles, flipped |-> flip]

\* The inputs the Kinematics functions are called with.
Grid == {0 - 2, 0 - 1, 0, 1, 2}

WristCentres == {0 - 1, 0, 1}

Geometries ==
    [x : WristCentres, y : WristCentres,
     thetaB : {0 - 45000, 45000, 135000},
     thetaC : {10000, 45000, NaN},
     thetaD : {45000, 135000},
     q4 : {0 - 150000, 30000},
     q5 : {0, 100000},
     q6 : {0 - 90000, 170000}]

CallGetJ1Angle ==
    /\ kin.op = "new"
    /\ \E x \in Grid, y \in Grid :
          kin' = [op |-> "getJ1Angle", x |-> x, y |-> y, out |-> getJ1Angle(x, y)]
    /\ UNCHANGED << jvars, robot, rlog, enc >>

CallInverseKinematics ==
    /\ kin.op = "new"
    /\ \E ranges \in RangeTables, g \in Geometries, wristConfig \in {"F", "NF"} :
          kin' = [op |-> "inverseKinematics", ranges |-> ranges, g |-> g,
                  wristConfig |-> wristConfig,
                  out |-> inverseKinematics(ranges, g, wristConfig)]
    /\ UNCHANGED << jvars, robot, rlog, enc >>

NextKin == CallGetJ1Angle \/ CallInverseKinematics

SpecKin == Init /\ [][NextKin]_vars

----------------------------------------------------------------------------
(* getCoordinatedSpeeds (src/unnamed/part_005).  The deltas are whole       *)
(* degrees, the speeds it returns fixed point.  JOINT_CONFIGS[..].MAX_SPEED *)
(* is the table the function is given: the one of MOTOR_CONFIGS or the one  *)
(* its test installs.  out holds the speeds to three decimals; cmp holds,   *)
(* for each joint, how the double the function returns compares with the    *)
(* joint's MAX_SPEED.                                                       *)

Axes == 1..6

\* MAX_SPEED of J1..J6 in MOTOR_CONFIGS and in the test of getCoordinatedSpeeds.
SpeedTables == { << 10, 30, 30, 60, 60, 100 >>, << 10, 20, 15, 25, 30, 40 >> }

\* The deltas getCoordinatedSpeeds is called with, per joint.
DeltaGrid == {0 - 20, 0, 10, 11}

\* A joint whose theoreticalTime |delta| / maxSpeed is maxTravelTime.
slowest(maxSpeeds, deltaAngles) ==
    CHOOSE m \in Axes :
        \A k \in Axes :
            Abs(deltaAngles[k]) * maxSpeeds[m] <= Abs(deltaAngles[m]) * maxSpeeds[k]

\* getCoordinatedSpeeds without the test for a zero travel time: 0 / 0.
getCoordinatedSpeedsUnguarded(maxSpeeds, deltaAngles) ==
    LET m == slowest(maxSpeeds, deltaAngles)
    IN  [j \in Axes |->
            IF deltaAngles[m] = 0 THEN NaN
            ELSE Sign(deltaAngles[j])
                   * ((Abs(deltaAngles[j]) * maxSpeeds[m] * Milli) \div Abs(deltaAngles[m]))]

\* getCoordinatedSpeeds: delta / maxTravelTime for every joint, with
\* maxTravelTime = |delta_m| / maxSpeed_m of the slowest joint m.
getCoordinatedSpeeds(maxSpeeds, deltaAngles) ==
    LET m == slowest(maxSpeeds, deltaAngles)
    IN  IF deltaAngles[m] = 0
        THEN [j \in Axes |-> 0]
        ELSE [j \in Axes |->
                 Sign(deltaAngles[j])
                   * ((Abs(deltaAngles[j]) * maxSpeeds[m] * Milli) \div Abs(deltaAngles[m]))]

\* d / (d / s) in IEEE-754 double arithmetic, compared with s: 0 when the
\* two divisions give s back, 1 when the result is the next double above s.
\* For the deltas of DeltaGrid and the speeds of SpeedTables only 11 with 15,
\* 30 and 60 does not come back: 11 / (11 / 30) is 30.000000000000004.
RoundTripExcess(d, s) == IF d = 11 /\ s \in {15, 30, 60} THEN 1 ELSE 0

\* |delta_j / maxTravelTime| compared with MAX_SPEED of joint j: -1 below,
\* 0 equal, 1 above.  A joint whose theoretical time is below maxTravelTime
\* is below its MAX_SPEED by far more than a rounding error.
compareWithMaxSpeed(maxSpeeds, deltaAngles, j) ==
    LET m == slowest(maxSpeeds, deltaAngles)
    IN  IF Abs(deltaAngles[j]) * maxSpeeds[m] < Abs(deltaAngles[m]) * maxSpeeds[j]
        THEN 0 - 1
        ELSE IF deltaAngles[m] = 0 THEN 0 - 1
        ELSE RoundTripExcess(Abs(deltaAngles[j]), maxSpeeds[j])

CallGetCoordinatedSpeeds ==
    /\ kin.op = "new"
    /\ \E maxSpeeds \in SpeedTables, deltaAngles \in [Axes -> DeltaGrid] :
          kin' = [op |-> "getCoordinatedSpeeds", maxSpeeds |-> maxSpeeds,
                  deltaAngles |-> deltaAngles,
                  out |-> getCoordinatedSpeeds(maxSpeeds, deltaAngles),
                  cmp |-> [j \in Axes |->
                              compareWithMaxSpeed(maxSpeeds, deltaAngles, j)]]
    /\ UNCHANGED << jvars, robot, rlog, enc >>

NextUtils == CallGetCoordinatedSpeeds

SpecUtils == Init /\ [][NextUtils]_vars

----------------------------------------------------------------------------
(* The steps of the Encoder: the board reports a pin, or reset() is called. *)

\* The value of the last 'change' emitted up to the start of this step.
PrevEmitted(e) ==
    IF e.emitted # <<>> THEN << e.emitted[Len(e.emitted)] >> ELSE e.prev

\* The valid transitions in one direction up to and including this step.
RunAfter(e, delta) ==
    LET before == IF e.emitted # <<>> THEN 0 ELSE e.run
        r == IF delta = 0 THEN before
             ELSE IF before * delta > 0 THEN before + delta
             ELSE delta
    IN  IF Abs(r) > TRANSITIONS_PER_DETENT THEN delta * TRANSITIONS_PER_DETENT ELSE r

PinRead ==
    /\ \E pin \in {"a", "b"}, value \in {0, 1} :
          LET e == digitalRead([enc EXCEPT !.emitted = <<>>], pin, value)
              delta == IF e.inits # enc.inits THEN 0
                       ELSE e.transitionCount - enc.transitionCount
          IN  /\ Abs(e.transitionCount) <= MaxCount
              /\ enc' = [e EXCEPT !.op = "read", !.pre = EncoderFields(enc),
                                  !.prev = PrevEmitted(enc),
                                  !.run = IF e.inits # enc.inits THEN 0
                                          ELSE RunAfter(enc, delta)]
    /\ UNCHANGED << jvars, kin, robot, rlog >>

Reset ==
    /\ enc.resets < MaxResets
    /\ enc' = [reset([enc EXCEPT !.emitted = <<>>]) EXCEPT
                  !.op = "reset", !.pre = EncoderFields(enc), !.run = 0,
                  !.prev = PrevEmitted(enc),
                  !.resets = @ + 1]
    /\ UNCHANGED << jvars, kin, robot, rlog >>

NextEncoder == PinRead \/ Reset

SpecEncoder == Init /\ [][NextEncoder]_vars

----------------------------------------------------------------------------
(* The Robot (src/unnamed/part_008): six joints, Robot.home, Robot.halt and *)
(* moveToLinearly with its setInterval scheduler.  Each joint is a record   *)
(* of the fields of a Joint and of its device, and the functions of         *)
(* Joint.ts above act on it; the six joints are run with the configuration  *)
(* of J2.  moveToLinearly takes the results of inverseKinematics as its     *)
(* input: a target names the change of the joint vector and the pose, if    *)
(* any, for which inverseKinematics throws.  A promise continuation runs in *)
(* the step of the event that settled the promise it awaits.  A limit       *)
(* switch is pressed by a joint whose motor runs a move, and stays pressed. *)

NumJoints == 6

FirstGroupSize == 3

CONTROL_LOOP_FREQUENCY_HZ == 50

\* Math.max(maxRequiredTime, 0.5), in milliseconds.
MinMoveTimeMs == 500

\* Bounds of the Robot's runs: the calls of moveToLinearly and halt, and the
\* calls of Robot.home.
MaxRobotOps == 2
MaxHomes == 1

Joints == 1..NumJoints

\* instances.slice(0, 3) and instances.slice(3)
Group(phase) ==
    IF phase = 1 THEN 1..FirstGroupSize ELSE (FirstGroupSize + 1)..NumJoints

\* A Joint after its constructor.
NewJoint ==
    [homed |-> FALSE, isHoming |-> FALSE, homeSwitchActivate |-> FALSE,
     degrees |-> 0, currentSpeedInDegrees |-> Fixed(MAX_SPEED),
     currentAcceleration |-> Fixed(MAX_ACCELERATION),
     devPos |-> 0, devTarget |-> 0, devRunning |-> FALSE,
     doneL |-> <<>>, reportL |-> <<>>, timers |-> <<>>,
     sent |-> <<>>, outcomes |-> <<>>, fresh |-> TRUE]

\* The Robot after its constructor: moveLIntervalId is undefined (0), no
\* interval runs, nothing has been called.
NewRobot ==
    [op |-> "robot", joints |-> [j \in Joints |-> NewJoint],
     moveLIntervalId |-> 0, intervals |-> {}, moves |-> <<>>,
     homes |-> <<>>, halts |-> <<>>, nops |-> 0, out |-> <<>>]

\* The start of a step of a joint: nothing sent or settled yet.
Fresh(s) == [s EXCEPT !.sent = <<>>, !.outcomes = <<>>, !.fresh = TRUE]

\* A promise of the Robot settles.
RobotSettled(r, kind, id, status, e) ==
    [r EXCEPT !.out = Append(@, [kind |-> kind, id |-> id, status |-> status, err |-> e])]

\* first.map((joint) => joint.home()) and last.map(...)
StartGroup(r, o, id, G) ==
    [r EXCEPT !.joints =
        [j \in Joints |->
            IF j \in G
            THEN home(r.joints[j], o, NewCall("home", "robotHome", id))
            ELSE r.joints[j]]]

\* A call of Robot.home and the joints whose home() has resolved for it.
NewHome == [st |-> "running", done |-> {}]

\* Robot.home that starts the six joints at once.
robotHomeAllAtOnce(r, o) ==
    LET id == Len(r.homes) + 1
    IN  StartGroup([r EXCEPT !.homes = Append(@, NewHome)], o, id, Joints)

\* Robot.home up to its first await.
robotHome(r, o) ==
    LET id == Len(r.homes) + 1
    IN  StartGroup([r EXCEPT !.homes = Append(@, NewHome)], o, id, Group(1))

\* Promise.all of Robot.home hears of the home() of joint j: a rejection
\* rejects Robot.home, the last resolution of J1..J3 starts J4..J6, the last
\* resolution of J4..J6 resolves Robot.home.
robotHomeHears(r, o, j, out) ==
    LET id == out.call.arg
        h == r.homes[id]
    IN  IF h.st # "running" THEN r
        ELSE IF out.status = "rejected"
             THEN RobotSettled([r EXCEPT !.homes[id].st = "rejected"],
                               "home", id, "rejected", out.err)
        ELSE LET done == h.done \cup {j}
                 r1 == [r EXCEPT !.homes[id].done = done]
             IN  IF done = Joints
                 THEN RobotSettled([r1 EXCEPT !.homes[id].st = "resolved"],
                                   "home", id, "resolved", "ok")
                 ELSE IF done = Group(1) /\ j \in Group(1)
                      THEN StartGroup(r1, o, id, Group(2))
                 ELSE r1

\* Promise.all of Joint.stopAll hears of a stop().
stopAllHears(r, out) ==
    LET id == out.call.arg
        left == r.halts[id].left - 1
    IN  IF left = 0
        THEN RobotSettled([r EXCEPT !.halts[id].left = 0], "halt", id, "resolved", "ok")
        ELSE [r EXCEPT !.halts[id].left = left]

\* The continuations of the Robot after promises of joint j settled.
RECURSIVE React(_, _, _, _)
React(r, o, j, outs) ==
    IF outs = <<>> THEN r
    ELSE LET out == Head(outs)
             r1 == IF out.call.from = "robotHome" THEN robotHomeHears(r, o, j, out)
                   ELSE IF out.call.from = "halt" THEN stopAllHears(r, out)
                   ELSE r
         IN  React(r1, o, j, Tail(outs))

\* JOINT_CONFIGS[J].MAX_SPEED of J1..J6, degrees per second.
MaxSpeeds == << 10, 30, 30, 60, 60, 100 >>

MaxOf(S) == CHOOSE x \in S : \A y \in S : y <= x

\* angleDiff / maxVelocity in microseconds.
timeForJoint(plan, j) == (Abs(plan.qe[j] - plan.qs[j]) * Milli) \div MaxSpeeds[j]

\* numSteps without the minimum of half a second.
numStepsNoMinimum(plan) ==
    LET maxRequiredTime == MaxOf({0} \cup {timeForJoint(plan, j) : j \in Joints})
    IN  (maxRequiredTime * CONTROL_LOOP_FREQUENCY_HZ + (Milli * Milli - 1))
            \div (Milli * Milli)

\* Math.ceil(Math.max(maxRequiredTime, 0.5) * CONTROL_LOOP_FREQUENCY_HZ)
numSteps(plan) ==
    LET maxRequiredTime == MaxOf({0} \cup {timeForJoint(plan, j) : j \in Joints})
        totalMoveTime == MaxOf({maxRequiredTime, MinMoveTimeMs * Milli})
    IN  (totalMoveTime * CONTROL_LOOP_FREQUENCY_HZ + (Milli * Milli - 1))
            \div (Milli * Milli)

\* jointTrajectories[jointIndex][i]: what inverseKinematics returned for the
\* pose interpolated at t = i / numSteps.
jointTrajectories(m, j, i) ==
    m.plan.qs[j] + ((m.plan.qe[j] - m.plan.qs[j]) * i) \div m.numSteps

\* startAngles: inverseKinematics(this.Pose) gives back the joints' angles.
startAngles(r) == [j \in Joints |-> r.joints[j].degrees]

\* What inverseKinematics makes of a move by t.delta from where the joints
\* are; t.fail names the pose it throws for.
PlanOf(r, t) ==
    [qs |-> startAngles(r),
     qe |-> [j \in Joints |-> startAngles(r)[j] + t.delta[j]],
     fail |-> t.fail]

\* moveToLinearly that plans the trajectory after it has started the interval.
moveToLinearlyPlansLate(r, t) ==
    LET id == Len(r.moves) + 1
        plan == PlanOf(r, t)
    IN  IF plan.fail.kind \in {"start", "target"}
        THEN RobotSettled(r, "moveL", id, "rejected", "IK")
        ELSE LET r1 == [r EXCEPT
                          !.moves = Append(@, [plan |-> plan, numSteps |-> numSteps(plan),
                                               currentStep |-> 0, issued |-> <<>>, caught |-> FALSE,
                                               st |-> "ticking"]),
                          !.moveLIntervalId = id,
                          !.intervals = @ \cup {id}]
             IN  IF plan.fail.kind = "step" /\ plan.fail.i <= numSteps(plan)
                 THEN RobotSettled(r1, "moveL", id, "rejected", "IK")
                 ELSE r1

\* Robot.moveToLinearly up to `await movePromise`.
moveToLinearly(r, t) ==
    LET id == Len(r.moves) + 1
        plan == PlanOf(r, t)
    IN  IF plan.fail.kind \in {"start", "target"}
        THEN RobotSettled(r, "moveL", id, "rejected", "IK")
        ELSE IF \E j \in Joints : MaxSpeeds[j] = 0 /\ plan.qe[j] # plan.qs[j]
             THEN RobotSettled(r, "moveL", id, "rejected", "ZeroVelocity")
        ELSE IF numSteps(plan) = 0
             THEN RobotSettled(r, "moveL", id, "resolved", "ok")
        ELSE IF plan.fail.kind = "step" /\ plan.fail.i <= numSteps(plan)
             THEN RobotSettled(r, "moveL", id, "rejected", "IK")
        ELSE [r EXCEPT
                !.moves = Append(@, [plan |-> plan, numSteps |-> numSteps(plan),
                                     currentStep |-> 0, issued |-> <<>>, caught |-> FALSE,
                                               st |-> "ticking"]),
                !.moveLIntervalId = id,
                !.intervals = @ \cup {id}]

\* The tick of the interval of move id: past the last index it clears
\* this.moveLIntervalId and resolves movePromise, after which moveToLinearly
\* waits for its buffer time; otherwise it calls rotateTo on every joint,
\* catches and logs what that throws (caught), and counts the step.
tick(r, o, id) ==
    LET m == r.moves[id]
    IN  IF m.currentStep > m.numSteps
        THEN [r EXCEPT !.intervals = @ \ {r.moveLIntervalId},
                       !.moves[id].st = IF @ = "ticking" THEN "buffer" ELSE @]
        ELSE LET rotated(j) ==
                     LET targetAngle == jointTrajectories(m, j, m.currentStep)
                         c == NewCall("rotateTo", "tick", targetAngle)
                     IN  Await(rotateTo(r.joints[j], o, targetAngle, c), c)
             IN
             [r EXCEPT
                !.joints = [j \in Joints |-> rotated(j)],
                !.moves[id].caught =
                   @ \/ \E j \in Joints : \E k \in 1..Len(rotated(j).outcomes) :
                            rotated(j).outcomes[k].status = "rejected",
                !.moves[id].currentStep = @ + 1,
                !.moves[id].issued =
                   Append(@, [j \in Joints |-> jointTrajectories(m, j, m.currentStep)])]

\* moveToLinearly after its buffer time.
bufferElapsed(r, id) ==
    RobotSettled([r EXCEPT !.moves[id].st = "done"], "moveL", id, "resolved", "ok")

\* Robot.halt: clearInterval(this.moveLIntervalId) if it is defined, then
\* Joint.stopAll().
halt(r, o) ==
    LET id == Len(r.halts) + 1
    IN  [r EXCEPT
           !.intervals = IF r.moveLIntervalId # 0 THEN @ \ {r.moveLIntervalId} ELSE @,
           !.halts = Append(@, [left |-> NumJoints,
                                acc0 |-> [j \in Joints |-> r.joints[j].currentAcceleration]]),
           !.joints = [j \in Joints |->
                          stop(r.joints[j], o, NewCall("stop", "halt", id))]]

\* The device of a joint reports a completion.
deviceCompletion(s, o) ==
    LET s0 == [s EXCEPT !.devPos = s.devTarget, !.devRunning = FALSE,
                        !.doneL = <<>>, !.fresh = FALSE]
        s1 == IF \E i \in 1..Len(s.doneL) : SetsDegrees(s.doneL[i])
              THEN [s0 EXCEPT !.degrees = convertStepsToDegrees(s.devTarget)]
              ELSE s0
    IN  RunDone(s1, o, s.doneL)

\* The device of a joint answers a position request.
deviceReport(s, o) ==
    LET p == DevNow(s, o)
    IN  RunReport([s EXCEPT !.devPos = p, !.reportL = <<>>], o, s.reportL,
                  convertStepsToDegrees(p))

\* wait(500) of the oldest settling home() of a joint elapses.
settleElapsed(s, o) == homeSettled([s EXCEPT !.timers = Tail(@)], o, Head(s.timers))

\* A joint on which a stop() has begun and its zero-step fence is pending.
StopInProgress(s) ==
    \E i \in 1..Len(s.doneL) :
        /\ s.doneL[i].pc = "fence"
        /\ \/ s.doneL[i].kind = "stop"
           \/ s.doneL[i].kind = "home" /\ s.doneL[i].at = "stop"

\* A joint whose motor runs a move.
Moving(s) ==
    /\ s.devRunning
    /\ \E i \in 1..Len(s.doneL) : s.doneL[i].pc = "move"

\* The counter of a device whose joint stands at READY_POSITION.
ReadySteps ==
    Encode(convertDegreesToSteps(Fixed(READY_POSITION)), CHOOSE o \in Oracle : TRUE)

\* A joint after a home() that resolved and a release of its switch.
HomedJoint ==
    [NewJoint EXCEPT !.homed = TRUE, !.degrees = convertStepsToDegrees(ReadySteps),
                     !.devPos = ReadySteps, !.devTarget = ReadySteps]

\* The Robot as a program finds it: just constructed, or after J1.home().
RobotInit ==
    /\ JointInit
    /\ kin = KinNew
    /\ robot \in {NewRobot, [NewRobot EXCEPT !.joints[1] = HomedJoint]}
    /\ rlog = NewLog
    /\ enc = NewEncoder

\* The Robot at the start of a step.
R == [robot EXCEPT !.joints = [j \in Joints |-> Fresh(robot.joints[j])],
                   !.out = <<>>]

\* What a step finds: the joints with a stop in progress, the intervals, the
\* step counters of the moves, the calls of Robot.home.
RPre ==
    [stopping |-> {j \in Joints : StopInProgress(robot.joints[j])},
     intervals |-> robot.intervals,
     moveLIntervalId |-> robot.moveLIntervalId,
     currentStep |-> [i \in 1..Len(robot.moves) |-> robot.moves[i].currentStep],
     homes |-> [i \in 1..Len(robot.homes) |-> robot.homes[i].st]]

NoTarget == [delta |-> [j \in Joints |-> 0], fail |-> [kind |-> "none", i |-> 0]]

RCommit(r, op, j, id, t) ==
    /\ \A k \in Joints : InReach(r.joints[k])
    /\ robot' = r
    /\ rlog' = [op |-> op, j |-> j, id |-> id, t |-> t, pre |-> RPre]
    /\ UNCHANGED << jvars, kin, enc >>

\* The poses inverseKinematics can throw for: none, the start, the target,
\* an interpolated one.
FailPoints ==
    {[kind |-> k, i |-> 0] : k \in {"none", "start", "target"}}
        \cup {[kind |-> "step", i |-> i] : i \in {1, 2}}

\* Moves: none of the joints turns, or J2 turns by 18 degrees.
MoveDeltas ==
    {[j \in Joints |-> 0], [j \in Joints |-> IF j = 2 THEN Fixed(18) ELSE 0]}

MoveTargets == [delta : MoveDeltas, fail : FailPoints]

\* Moves for the planning of moveToLinearly alone: J1, J2 and J6 turn by
\* -90, 0, 3 or 18 degrees.
PlanDeltas ==
    { [j \in Joints |-> IF j = 1 THEN d[1] ELSE IF j = 2 THEN d[2]
                         ELSE IF j = NumJoints THEN d[3] ELSE 0] :
        d \in [1..3 -> {0 - Fixed(90), 0, Fixed(3), Fixed(18)}] }

PlanTargets == [delta : PlanDeltas, fail : FailPoints]

\* moveToLinearly is called once, with any of these moves.
CallMoveToLinearlyOnce ==
    /\ robot.nops = 0
    /\ \E t \in PlanTargets :
          RCommit([moveToLinearly(R, t) EXCEPT !.nops = @ + 1], "moveL", 0,
                  Len(robot.moves) + 1, t)

CanCallRobot ==
    /\ robot.nops < MaxRobotOps
    /\ \A j \in Joints : NCalls(robot.joints[j]) < MaxCalls

CallRobotHome ==
    /\ Len(robot.homes) < MaxHomes
    /\ \A j \in Joints : NCalls(robot.joints[j]) < MaxCalls
    /\ \E o \in Oracle :
          RCommit([robotHome(R, o) EXCEPT !.nops = @ + 1], "home", 0,
                  Len(robot.homes) + 1, NoTarget)

CallMoveToLinearly ==
    /\ robot.nops < MaxRobotOps
    /\ \E t \in MoveTargets :
          RCommit([moveToLinearly(R, t) EXCEPT !.nops = @ + 1], "moveL", 0,
                  Len(robot.moves) + 1, t)

CallHalt ==
    /\ CanCallRobot
    /\ \E o \in Oracle :
          RCommit([halt(R, o) EXCEPT !.nops = @ + 1], "halt", 0,
                  Len(robot.halts) + 1, NoTarget)

\* The rotateTo calls of ticks that a joint has outstanding.
TickCalls(s) == Cardinality({i \in 1..Len(s.doneL) : s.doneL[i].from = "tick"})

\* An interval fires.
Tick ==
    \E id \in robot.intervals, o \in Oracle :
        /\ \A j \in Joints : TickCalls(robot.joints[j]) < MaxCalls
        /\ RCommit(tick(R, o, id), "tick", 0, id, NoTarget)

\* The buffer time of a move elapses.
BufferElapsed ==
    \E id \in 1..Len(robot.moves) :
        /\ robot.moves[id].st = "buffer"
        /\ RCommit(bufferElapsed(R, id), "buffer", 0, id, NoTarget)

\* An event of joint j and the continuations of the Robot it resumes.
JointEvent(op, j, s, o) ==
    RCommit(React([R EXCEPT !.joints[j] = s], o, j, s.outcomes), op, j, 0, NoTarget)

DeviceCompletion ==
    \E j \in Joints, o \in Oracle :
        /\ robot.joints[j].devRunning
        /\ JointEvent("completion", j, deviceCompletion(R.joints[j], o), o)

DeviceReport ==
    \E j \in Joints, o \in Oracle :
        /\ robot.joints[j].reportL # <<>>
        /\ JointEvent("report", j, deviceReport(R.joints[j], o), o)

SettleElapsed ==
    \E j \in Joints, o \in Oracle :
        /\ robot.joints[j].timers # <<>>
        /\ JointEvent("timeout", j, settleElapsed(R.joints[j], o), o)

\* A joint that moves runs into its limit switch; the switch stays pressed.
SwitchPress ==
    \E j \in Joints, o \in Oracle :
        /\ ~robot.joints[j].homeSwitchActivate
        /\ Moving(robot.joints[j])
        /\ NCalls(robot.joints[j]) < MaxCalls
        /\ JointEvent("press", j, onHomeSwitchActivate(R.joints[j], o), o)

\* The Robot under moveToLinearly and halt.
NextRobot ==
    \/ CallMoveToLinearly
    \/ CallHalt
    \/ Tick
    \/ BufferElapsed
    \/ DeviceCompletion
    \/ SwitchPress

SpecRobot == RobotInit /\ [][NextRobot]_vars

\* The Robot under Robot.home.
NextRobotHome ==
    \/ CallRobotHome
    \/ DeviceCompletion
    \/ DeviceReport
    \/ SettleElapsed
    \/ SwitchPress

\* moveToLinearly is called when no move has been made yet.
CallMoveToLinearlyFirst == robot.moves = <<>> /\ CallMoveToLinearly

\* halt is called once, after the move.
CallHaltOnce == robot.moves # <<>> /\ robot.halts = <<>> /\ CallHalt

\* The running devices complete their moves in the order of their joints.
DeviceCompletionInOrder ==
    \E j \in Joints, o \in Oracle :
        /\ robot.joints[j].devRunning
        /\ \A k \in 1..(j - 1) : ~robot.joints[k].devRunning
        /\ JointEvent("completion", j, deviceCompletion(R.joints[j], o), o)

\* One moveToLinearly and one halt, in the runs where every interval that is
\* set fires, every buffer time elapses and every running device completes
\* its move.
NextHalted ==
    \/ CallMoveToLinearlyFirst
    \/ CallHaltOnce
    \/ Tick
    \/ BufferElapsed
    \/ DeviceCompletionInOrder

SpecHalted ==
    /\ RobotInit
    /\ [][NextHalted]_vars
    /\ WF_vars(Tick)
    /\ WF_vars(BufferElapsed)
    /\ WF_vars(DeviceCompletionInOrder)

\* Moves that inverseKinematics plans without throwing.
PlannedTargets == {t \in MoveTargets : t.fail.kind = "none"}

\* moveToLinearly is called a first time, and a second time at any moment
\* after that.
CallMoveToLinearlyTwice ==
    /\ Len(robot.moves) < 2
    /\ \E t \in PlannedTargets :
          RCommit([moveToLinearly(R, t) EXCEPT !.nops = @ + 1], "moveL", 0,
                  Len(robot.moves) + 1, t)

\* halt is called once, at any moment after the second moveToLinearly.
CallHaltAfterBoth ==
    /\ Len(robot.moves) = 2
    /\ robot.halts = <<>>
    /\ \A j \in Joints : NCalls(robot.joints[j]) < MaxCalls
    /\ \E o \in Oracle :
          RCommit([halt(R, o) EXCEPT !.nops = @ + 1], "halt", 0,
                  Len(robot.halts) + 1, NoTarget)

\* Two moveToLinearly, the second called while the first may still tick, and
\* one halt after them.
NextOverlap ==
    \/ CallMoveToLinearlyTwice
    \/ CallHaltAfterBoth
    \/ Tick
    \/ BufferElapsed
    \/ DeviceCompletionInOrder

SpecOverlap == RobotInit /\ [][NextOverlap]_vars

NextPlan == CallMoveToLinearlyOnce

SpecPlan == RobotInit /\ [][NextPlan]_vars

SpecRobotHome == RobotInit /\ [][NextRobotHome]_vars

----------------------------------------------------------------------------
(* Properties of the joint controller.                                     *)

Outs == 1..Len(outcomes)

Ran == 1..Len(called.ran)

OutOfRangeArg(x) == x < Fixed(RANGE_MIN) \/ x > Fixed(RANGE_MAX)

MotionSent == \E i \in 1..Len(sent) : sent[i].op \in {"step", "to"}

\* The one promise a call settled in the step that made it.
RejectedAtOnce(kind, e) ==
    /\ Len(outcomes) = 1
    /\ outcomes[1].status = "rejected"
    /\ outcomes[1].err = e
    /\ outcomes[1].call.kind = kind
    /\ outcomes[1].call.arg = called.arg

C1_Case ==
    /\ called.op = "rotateTo"
    /\ called.pre.homed
    /\ ~called.pre.isHoming
    /\ OutOfRangeArg(called.arg)

\* C1: on a homed joint that is not homing, rotateTo(target) with target
\* below min or above max raises the out-of-range error, sends nothing to
\* the gateway and leaves homed and degrees as they were.
C1_RotateToOutOfRange ==
    C1_Case =>
        /\ RejectedAtOnce("rotateTo", "OutOfRange")
        /\ sent = <<>>
        /\ homed = called.pre.homed
        /\ degrees = called.pre.degrees
        /\ isHoming = called.pre.isHoming

C1_Witness ==
    /\ C1_Case
    /\ called.arg < Fixed(RANGE_MIN)
    /\ RejectedAtOnce("rotateTo", "OutOfRange")

C2_Case ==
    /\ called.op \in {"rotateTo", "rotateBy"}
    /\ called.op = "rotateBy" => called.arg # 0
    /\ ~called.pre.homed
    /\ ~called.pre.isHoming

IsFence(c) == c.kind = "rotateBy" /\ c.pc = "fence"

\* C3: rotateBy(0) is accepted in every state of the joint: it raises
\* nothing, posts one zero-step command and leaves degrees alone; the
\* completion that follows resolves it with true, and a completion that
\* resumes no move leaves degrees alone.
C3_ZeroStepFence ==
    /\ (called.op = "rotateBy" /\ called.arg = 0) =>
          /\ outcomes = <<>>
          /\ sent = << Cmd("step", 0) >>
          /\ degrees = called.pre.degrees
          /\ doneL # <<>>
          /\ IsFence(doneL[Len(doneL)])
    /\ called.op = "completion" =>
          /\ \A i \in Ran : IsFence(called.ran[i]) =>
                \E j \in Outs : /\ outcomes[j].call = called.ran[i]
                                /\ outcomes[j].status = "resolved"
                                /\ outcomes[j].value = TRUE
          /\ \A j \in Outs : IsFence(outcomes[j].call) =>
                outcomes[j].status = "resolved" /\ outcomes[j].value = TRUE
          /\ (\A i \in Ran : called.ran[i].pc # "move") =>
                degrees = called.pre.degrees

C3_Witness ==
    /\ called.op = "completion"
    /\ ~called.pre.homed
    /\ ~called.pre.isHoming
    /\ \E j \in Outs : IsFence(outcomes[j].call) /\ outcomes[j].value = TRUE

\* C4: whenever home() resolves, homed is true and degrees is the ready
\* position within one step; stated for runs in which home() is the only
\* call, so that only switch edges and completions interleave with it.
C4_HomeResolvesAtReady ==
    \A j \in Outs :
        (outcomes[j].call.kind = "home" /\ outcomes[j].status = "resolved" /\ ops = 1)
        => /\ homed
           /\ Abs(degrees - Fixed(READY_POSITION)) <= OneStep

HomeAtStop(c) == c.kind = "home" /\ c.at = "stop"

C6_HomingClearedOnExit ==
    \A j \in Outs : outcomes[j].call.kind = "home" => ~isHoming

\* C7: homed implies that degrees lies in the joint's range, up to one step.
C7_HomedInRange ==
    homed =>
        /\ degrees >= Fixed(RANGE_MIN) - OneStep
        /\ degrees <= Fixed(RANGE_MAX) + OneStep

\* C8: homed turns from false to true only in the continuation of a home()
\* whose seek move and stop() have resolved, with the limit switch active at
\* that moment; no call from outside and no switch edge sets it.
C8_HomedOnlyByHome ==
    (homed /\ ~called.pre.homed) =>
        /\ called.op = "completion"
        /\ called.pre.homeSwitchActivate
        /\ homeSwitchActivate
        /\ \E i \in Ran : HomeAtStop(called.ran[i])

C8_Witness == homed /\ ~called.pre.homed /\ called.op = "completion"

\* C9: when a stop() resolves, currentAcceleration is what it was when that
\* stop() began, and the last command that stop() sent is the
\* set-acceleration of that value.
C9_StopRestoresAcceleration ==
    \A j \in Outs : outcomes[j].call.kind = "stop" =>
        /\ outcomes[j].status = "resolved"
        /\ outcomes[j].acc = outcomes[j].call.acc0
        /\ outcomes[j].nsent >= 1
        /\ sent[outcomes[j].nsent] =
              Cmd("accel", convertDegreesToSteps(outcomes[j].call.acc0))

C9_Witness ==
    \E j \in Outs :
        /\ outcomes[j].call.kind = "stop"
        /\ outcomes[j].call.from = "user"
        /\ outcomes[j].call.acc0 \in Accelerations
        /\ currentAcceleration \in Accelerations

\* C10: a press edge sets homeSwitchActivate and sends a stop in the same
\* step, in every state of the joint; a release edge clears it and sends
\* nothing; homeSwitchActivate is always the kind of the last edge.
C10_SwitchEdges ==
    /\ called.op = "press" =>
          /\ homeSwitchActivate
          /\ sent # <<>>
          /\ sent[1] = Cmd("stop", 0)
    /\ called.op = "release" => ~homeSwitchActivate /\ sent = <<>>
    /\ homeSwitchActivate <=> (lastEdge = "press")

C10_Witness ==
    /\ called.op = "press"
    /\ called.pre.homed
    /\ ~called.pre.isHoming
    /\ sent[1] = Cmd("stop", 0)

IsMove(c) == c.kind \in {"rotateTo", "rotateBy"} /\ c.pc = "move"

\* C17: when a rotateTo or a non-zero rotateBy completes, degrees is the
\* conversion of the step count the device reported, and the call resolves
\* true exactly when that angle is the commanded target within one step.
C17_ResolvesTrueWithinOneStep ==
    called.op = "completion" =>
        \A j \in Outs : IsMove(outcomes[j].call) =>
            /\ outcomes[j].status = "resolved"
            /\ degrees = convertStepsToDegrees(called.arg)
            /\ outcomes[j].value <=> (Abs(degrees - outcomes[j].call.exp) <= OneStep)


----------------------------------------------------------------------------
(* Properties of the kinematics.                                            *)

\* C18: inverseKinematics returns six angles that each lie in the range of
\* their joint, or it raises an error; for both wrist configurations, with
\* and without a wrist flip.
C18_AnglesInRangeOrError ==
    kin.op = "inverseKinematics" =>
        \/ kin.out.err = "OutOfRange"
        \/ /\ kin.out.err = "ok"
           /\ Len(kin.out.degrees) = 6
           /\ \A i \in 1..6 :
                 /\ kin.out.degrees[i] # NaN
                 /\ kin.out.degrees[i] >= Fixed(kin.ranges[i][1])
                 /\ kin.out.degrees[i] <= Fixed(kin.ranges[i][2])

C18_Witness ==
    /\ kin.op = "inverseKinematics"
    /\ kin.out.err = "ok"
    /\ kin.out.flipped
    /\ kin.wristConfig = "F"

\* C20: getJ1Angle(x, y) lies in (-180, 180] degrees for every x and y.
C20_J1AngleHalfOpen ==
    kin.op = "getJ1Angle" =>
        /\ kin.out > 0 - Fixed(HALF_TURN)
        /\ kin.out <= Fixed(HALF_TURN)

----------------------------------------------------------------------------
(* Properties of the Robot.                                                 *)

RobotOuts == 1..Len(robot.out)

\* C13: when inverseKinematics throws for the start pose, the target pose or
\* an interpolated pose, moveToLinearly rejects in the step of its call,
\* without a command or a rotateTo on any joint and without an interval.
C13_IKFailureBeforeAnyCommand ==
    rlog.op = "moveL" /\ rlog.t.fail.kind # "none" =>
        /\ \E i \in RobotOuts :
              /\ robot.out[i].kind = "moveL"
              /\ robot.out[i].id = rlog.id
              /\ robot.out[i].status = "rejected"
        /\ \A j \in Joints :
              robot.joints[j].sent = <<>> /\ robot.joints[j].outcomes = <<>>
        /\ robot.intervals = rlog.pre.intervals
        /\ robot.moveLIntervalId = rlog.pre.moveLIntervalId
        /\ Len(robot.moves) < rlog.id

\* An interpolated pose fails while the interval of an earlier move runs.
C13_Witness ==
    /\ rlog.op = "moveL"
    /\ rlog.t.fail.kind = "step"
    /\ rlog.pre.intervals # {}
    /\ robot.out # <<>>
    /\ robot.out[1].status = "rejected"

\* C15: a moveToLinearly whose ticks had a rotateTo fail does not resolve.
C15_TickErrorSurfaces ==
    rlog.op = "buffer" => ~robot.moves[rlog.id].caught

\* C14: without a halt, the ticks of a move call rotateTo on every joint with
\* q_0, q_1, ... in this order, at most once per index; a move whose interval
\* is gone has issued all of q_0..q_N, and the interval of a move that has
\* issued them all and resolved movePromise is gone.
C14_OneRotateToPerIndex ==
    robot.op = "robot" /\ robot.halts = <<>> =>
        \A id \in 1..Len(robot.moves) :
            LET m == robot.moves[id]
            IN  /\ Len(m.issued) <= m.numSteps + 1
                /\ \A k \in 1..Len(m.issued) :
                      m.issued[k] = [j \in Joints |-> jointTrajectories(m, j, k - 1)]
                /\ id \notin robot.intervals => Len(m.issued) = m.numSteps + 1
                /\ m.st # "ticking" => id \notin robot.intervals

\* No joint has a call outstanding.
Quiet == \A j \in Joints : NCalls(robot.joints[j]) = 0 /\ ~robot.joints[j].devRunning

\* C12: halt clears the interval named by moveLIntervalId and stops every
\* joint in the step of its call, and calling it again leaves what calling it
\* once leaves: when nothing but halt was called and all its calls have
\* resolved, every joint has the acceleration it had before the first call.
C12_HaltIdempotent ==
    /\ rlog.op = "halt" =>
          /\ rlog.pre.moveLIntervalId \notin robot.intervals
          /\ \A j \in Joints :
                \E k \in 1..Len(robot.joints[j].sent) :
                    robot.joints[j].sent[k].op = "stop"
    /\ /\ robot.op = "robot"
       /\ robot.moves = <<>>
       /\ robot.halts # <<>>
       /\ \A id \in 1..Len(robot.halts) : robot.halts[id].left = 0
       /\ Quiet
       => \A j \in Joints :
             robot.joints[j].currentAcceleration = robot.halts[1].acc0[j]

\* C11: in runs without halt, no tick of a move has its rotateTo send a move
\* to the motor of a joint on which a stop() has begun and the zero-step fence
\* of that stop has not resolved.
C11_NoRotateDuringStop ==
    rlog.op = "tick" /\ robot.halts = <<>> =>
        \A j \in rlog.pre.stopping :
            \A k \in 1..Len(robot.joints[j].sent) : robot.joints[j].sent[k].op # "to"

\* C16: a joint of J4..J6 is in its home() cycle, or has been homed, only
\* when the home() of each of J1..J3 has resolved for the call of Robot.home;
\* and when the home() of a joint rejects, the call of Robot.home it was
\* made for is rejected, with the joint's error if it was still running.
C16_TwoPhaseHome ==
    /\ \A j \in Group(2) :
          robot.joints[j].isHoming \/ robot.joints[j].homed \/ NCalls(robot.joints[j]) > 0 =>
              \E id \in 1..Len(robot.homes) : Group(1) \subseteq robot.homes[id].done
    /\ \A j \in Joints : \A k \in 1..Len(robot.joints[j].outcomes) :
          LET out == robot.joints[j].outcomes[k]
          IN  out.call.from = "robotHome" /\ out.status = "rejected" =>
                  /\ robot.homes[out.call.arg].st = "rejected"
                  /\ rlog.pre.homes[out.call.arg] = "running" =>
                        \E i \in RobotOuts :
                            /\ robot.out[i].kind = "home"
                            /\ robot.out[i].id = out.call.arg
                            /\ robot.out[i].status = "rejected"
                            /\ robot.out[i].err = out.err

\* J1..J3 have resolved and a joint of J4..J6 is in its home() cycle.
C16_Witness ==
    /\ robot.op = "robot"
    /\ robot.homes # <<>>
    /\ Group(1) \subseteq robot.homes[1].done
    /\ \E j \in Group(2) : robot.joints[j].isHoming

----------------------------------------------------------------------------
(* Further properties of the joint controller.                             *)

Sent == 1..Len(sent)

\* C26: every stop command is followed at once by set-acceleration(0) and a
\* zero-step command; a stop() called from outside or by a press sends these
\* three and nothing else before the completion; a stop() resolves in the
\* completion that resumed its fence, after sending set-acceleration of the
\* value it saved.
C26_StopCommandOrder ==
    /\ \A k \in Sent : sent[k].op = "stop" =>
          /\ k + 2 <= Len(sent)
          /\ sent[k + 1] = Cmd("accel", 0)
          /\ sent[k + 2] = Cmd("step", 0)
    /\ called.op \in {"stop", "press"} =>
          /\ sent = << Cmd("stop", 0), Cmd("accel", 0), Cmd("step", 0) >>
          /\ outcomes = <<>>
          /\ doneL # <<>>
          /\ doneL[Len(doneL)].kind = "stop"
          /\ doneL[Len(doneL)].pc = "fence"
    /\ \A j \in Outs : outcomes[j].call.kind = "stop" =>
          /\ called.op = "completion"
          /\ \E i \in Ran : called.ran[i] = outcomes[j].call
          /\ outcomes[j].call.pc = "fence"
          /\ outcomes[j].nsent >= 1
          /\ sent[outcomes[j].nsent] =
                Cmd("accel", convertDegreesToSteps(outcomes[j].call.prev))

\* A stop() called while the joint runs at a set acceleration resolves.
C26_Witness ==
    \E j \in Outs :
        /\ outcomes[j].call.kind = "stop"
        /\ outcomes[j].call.prev \in Accelerations
        /\ outcomes[j].status = "resolved"

\* C30: degrees changes only in a completion that runs the callback of a
\* non-zero rotateBy or of a rotateTo, and then to the angle of the reported
\* count; calls of setSpeed, setAcceleration and stop, the completion of a
\* zero-step fence alone, zero() of the counter, position reports, the settle
\* wait and switch edges leave it as it was.
C30_DegreesOnlyOnMoveCompletion ==
    /\ degrees # called.pre.degrees =>
          /\ called.op = "completion"
          /\ \E i \in Ran : called.ran[i].pc = "move"
          /\ degrees = convertStepsToDegrees(called.arg)
    /\ (\E k \in Sent : sent[k].op = "zero") /\ called.op = "completion"
          /\ (\A i \in Ran : called.ran[i].pc # "move")
          => degrees = called.pre.degrees

\* zero() is sent while degrees is not 0, and degrees stays.
C30_Witness ==
    /\ \E k \in Sent : sent[k].op = "zero"
    /\ degrees # 0
    /\ degrees = called.pre.degrees

\* C29: zero() of the device counter is sent only in the completion of the
\* move that follows the settle wait, and the device counter is 0 when home()
\* resolves.
C29_ZeroAfterCalibration ==
    /\ (\E k \in Sent : sent[k].op = "zero") =>
          /\ called.op = "completion"
          /\ \E i \in Ran : called.ran[i].kind = "home" /\ called.ran[i].at = "ready"
    /\ \A j \in Outs :
          outcomes[j].call.kind = "home" /\ outcomes[j].status = "resolved" => devPos = 0

Entered ==
    IF called.op = "home" THEN { Len(reportL) }
    ELSE IF called.op = "completion"
         THEN LET n == Cardinality({k \in Sent : sent[k].op = "report"})
              IN  { i \in 1..Len(reportL) : i > Len(reportL) - n }
    ELSE {}

----------------------------------------------------------------------------
(* Properties of getCoordinatedSpeeds.                                      *)

Negated(deltaAngles) == [j \in Axes |-> 0 - deltaAngles[j]]

\* |delta_j| / Tmax with Tmax = max_k(|delta_k| / MAX_SPEED_k), joint m
\* being one that attains the maximum.
SpeedOverTmax(maxSpeeds, deltaAngles, j) ==
    LET m == CHOOSE m \in Axes :
                 \A k \in Axes :
                     Abs(deltaAngles[k]) * maxSpeeds[m] <= Abs(deltaAngles[m]) * maxSpeeds[k]
    IN  (Abs(deltaAngles[j]) * maxSpeeds[m] * Milli) \div Abs(deltaAngles[m])

\* C21: for deltas that are not all zero, the speed returned for joint j is
\* |delta_j| / Tmax, which is not negative, and the speeds returned for the
\* negated deltas are the same.
C21_SpeedsAreMagnitudes ==
    kin.op = "getCoordinatedSpeeds" /\ (\E j \in Axes : kin.deltaAngles[j] # 0) =>
        /\ \A j \in Axes :
              /\ kin.out[j] >= 0
              /\ kin.out[j] = SpeedOverTmax(kin.maxSpeeds, kin.deltaAngles, j)
        /\ kin.out = getCoordinatedSpeeds(kin.maxSpeeds, Negated(kin.deltaAngles))

\* C22: when every delta is 0 every speed returned is 0, and none of them is
\* the NaN of a division of 0 by the zero travel time.
C22_ZeroDeltasZeroSpeeds ==
    kin.op = "getCoordinatedSpeeds" /\ (\A j \in Axes : kin.deltaAngles[j] = 0) =>
        \A j \in Axes : kin.out[j] = 0 /\ kin.out[j] # NaN

\* getCoordinatedSpeeds was called with six zero deltas.
C22_Witness ==
    /\ kin.op = "getCoordinatedSpeeds"
    /\ \A j \in Axes : kin.deltaAngles[j] = 0
    /\ kin.out = [j \in Axes |-> 0]

----------------------------------------------------------------------------
(* Properties of the Encoder.                                               *)

BothRead(f) == f.initialReadsComplete.a /\ f.initialReadsComplete.b

\* C23: while a pin has not been read the Encoder is not initialised, has
\* emitted nothing and has counted nothing; the read that completes the
\* pair initialises it: lastEncoded is (aValue << 1) | bValue, both
\* counters are 0 and 'change' is emitted once, with 0; initializeEncoder
\* runs at most once.
C23_InitialisedByBothReads ==
    /\ ~BothRead(enc) =>
          /\ ~enc.isInitialized
          /\ enc.emitted = <<>>
          /\ enc.transitionCount = 0 /\ enc.detentPosition = 0
          /\ enc.inits = 0
    /\ enc.op = "read" /\ ~BothRead(enc.pre) /\ BothRead(enc) =>
          /\ enc.isInitialized /\ ~enc.pre.isInitialized
          /\ enc.lastEncoded = 2 * enc.aValue + enc.bValue
          /\ enc.transitionCount = 0 /\ enc.detentPosition = 0
          /\ enc.emitted = << 0 >>
    /\ BothRead(enc) => enc.isInitialized /\ enc.inits = 1

\* The second pin has just been read for the first time.
C23_Witness ==
    /\ enc.op = "read"
    /\ ~BothRead(enc.pre) /\ BothRead(enc)
    /\ enc.lastEncoded = 3
    /\ enc.emitted = << 0 >>

\* C24: a read of an initialised Encoder changes detentPosition, or emits
\* 'change', only when it is the fourth valid transition in one direction
\* since the initialisation, the last reset or the last 'change'.
C24_DetentAfterFourTransitions ==
    enc.op = "read" /\ enc.pre.isInitialized
        /\ (enc.detentPosition # enc.pre.detentPosition \/ enc.emitted # <<>>)
    => Abs(enc.run) = TRANSITIONS_PER_DETENT

\* C25: reset() sets transitionCount and detentPosition to 0, leaves
\* lastEncoded, the pin values and the initialisation flags as they were,
\* and emits 'change' with 0 exactly when detentPosition was not 0.
C25_ResetFrame ==
    enc.op = "reset" =>
        /\ enc.transitionCount = 0 /\ enc.detentPosition = 0
        /\ enc.lastEncoded = enc.pre.lastEncoded
        /\ enc.aValue = enc.pre.aValue /\ enc.bValue = enc.pre.bValue
        /\ enc.initialReadsComplete = enc.pre.initialReadsComplete
        /\ enc.isInitialized = enc.pre.isInitialized
        /\ enc.emitted = IF enc.pre.detentPosition # 0 THEN << 0 >> ELSE <<>>

\* reset() was called one detent away from 0, between two transitions.
C25_Witness ==
    /\ enc.op = "reset"
    /\ enc.pre.detentPosition = 1 /\ enc.pre.transitionCount = 5
    /\ enc.pre.lastEncoded = 1
    /\ enc.emitted = << 0 >>

\* The two pin states differ in both bits: none of the eight transitions of
\* the quadrature sequence, each of which changes one pin.
InvalidPair(last, cur) == last + cur = 3

C40_DetentIsFloorOfCount ==
    /\ enc.isInitialized =>
          /\ TRANSITIONS_PER_DETENT * enc.detentPosition <= enc.transitionCount
          /\ enc.transitionCount < TRANSITIONS_PER_DETENT * (enc.detentPosition + 1)
    /\ enc.emitted # <<>> =>
          /\ enc.emitted = << enc.detentPosition >>
          /\ enc.op = "read" /\ enc.pre.isInitialized =>
                /\ enc.prev # <<>>
                /\ Abs(enc.emitted[1] - enc.prev[1]) = 1
          /\ enc.op = "reset" => enc.emitted = << 0 >>

\* A read emits -2 after -1 was emitted, a reset having come in between
\* the initialisation and these.
C40_Witness ==
    /\ enc.op = "read" /\ enc.pre.isInitialized
    /\ enc.resets > 0
    /\ enc.prev = << 0 - 1 >>
    /\ enc.emitted = << 0 - 2 >>
    /\ enc.transitionCount = 0 - 5

----------------------------------------------------------------------------
(* Further properties of getCoordinatedSpeeds.                              *)

\* C39: no coordinated speed is above its joint's MAX_SPEED in magnitude,
\* and when some delta is not 0 the speed of at least one joint is exactly
\* its MAX_SPEED in magnitude.
C39_SpeedsWithinMaxSpeed ==
    kin.op = "getCoordinatedSpeeds" =>
        /\ \A j \in Axes :
              /\ Abs(kin.out[j]) <= Fixed(kin.maxSpeeds[j])
              /\ kin.cmp[j] <= 0
        /\ (\E j \in Axes : kin.deltaAngles[j] # 0) =>
              \E j \in Axes : Abs(kin.out[j]) = Fixed(kin.maxSpeeds[j]) /\ kin.cmp[j] = 0

----------------------------------------------------------------------------
(* Further properties of the kinematics.                                    *)

\* One of q4, q5, q6 lies outside the range of J4, J5, J6.
WristOutOfRange(ranges, w) ==
    \E i \in 1..3 :
        w[i] < Fixed(ranges[i + 3][1]) \/ w[i] > Fixed(ranges[i + 3][2])

----------------------------------------------------------------------------
(* Further properties of the Robot.                                         *)

\* max(max_j(|q_end_j - q_start_j| / max_speed_j), 0.5 s) in microseconds.
PlannedTime(delta) ==
    MaxOf({MinMoveTimeMs * Milli}
            \cup {(Abs(delta[j]) * Milli) \div MaxSpeeds[j] : j \in Joints})

\* C31: a moveToLinearly whose poses all have a solution plans T =
\* max(max_j(|delta_j| / max_speed_j), 0.5 s) and N = ceil(T * 50) steps: T is
\* at least 0.5 s, N at least 25, and the call does not return at once
\* through the test for zero steps: it registers its move.
C31_PlannedSteps ==
    rlog.op = "moveL" /\ rlog.t.fail.kind = "none" =>
        /\ Len(robot.moves) = rlog.id
        /\ \A i \in RobotOuts : robot.out[i].kind # "moveL"
        /\ LET N == robot.moves[rlog.id].numSteps
               T == PlannedTime(rlog.t.delta)
           IN  /\ T >= MinMoveTimeMs * Milli
               /\ N * Milli * Milli >= T * CONTROL_LOOP_FREQUENCY_HZ
               /\ (N - 1) * Milli * Milli < T * CONTROL_LOOP_FREQUENCY_HZ
               /\ N * Milli >= MinMoveTimeMs * CONTROL_LOOP_FREQUENCY_HZ

\* A move in which no joint turns is planned with 25 steps.
C31_Witness ==
    /\ rlog.op = "moveL" /\ rlog.t.fail.kind = "none"
    /\ \A j \in Joints : rlog.t.delta[j] = 0
    /\ Len(robot.moves) = rlog.id
    /\ robot.moves[rlog.id].numSteps * Milli = MinMoveTimeMs * CONTROL_LOOP_FREQUENCY_HZ

----------------------------------------------------------------------------
(* Properties of overlapping calls on one joint.                            *)

\* C34: when a completion resumes the fences of two stop() calls, the second
\* of which began while the first was waiting for its fence, and nothing
\* else, the acceleration afterwards is the one in effect when the first
\* stop() began.
C34_OverlappingStopsRestore ==
    /\ called.op = "completion"
    /\ Len(called.ran) = 2
    /\ \A i \in Ran : called.ran[i].kind = "stop" /\ called.ran[i].pc = "fence"
    /\ Len(outcomes) = 2
    => currentAcceleration = called.ran[1].acc0

\* C38: zero() is sent only by a home() whose seek ended with the limit
\* switch active, and a step in which a home() fails with the homing-failed
\* error sends no zero() and leaves the device's counter where it was.
C38_ZeroOnlyAfterSwitch ==
    /\ (\E k \in Sent : sent[k].op = "zero") =>
          \E i \in Ran : /\ called.ran[i].kind = "home"
                          /\ called.ran[i].at = "stop"
                          /\ called.ran[i].swSeek
    /\ (\E j \in Outs : outcomes[j].err = "HomingFailed") =>
          /\ \A k \in Sent : sent[k].op # "zero"
          /\ devPos = called.arg

\* C37: when the joint is homed and not homing, a relative move of other
\* than 0 steps that rotateBy posts after its position report sends the
\* motor to a position within [min, max], up to one step.
C37_StepTargetsInRange ==
    /\ called.op = "report"
    /\ called.pre.homed /\ ~called.pre.isHoming
    /\ \E k \in Sent : sent[k].op = "step" /\ sent[k].v # 0
    => /\ convertStepsToDegrees(devTarget) >= Fixed(RANGE_MIN) - OneStep
       /\ convertStepsToDegrees(devTarget) <= Fixed(RANGE_MAX) + OneStep

----------------------------------------------------------------------------
(* Properties of moveToLinearly under halt.                                 *)

\* halt() has just been called while the interval of move id was set.
HaltedWhileTicking(id) ==
    /\ rlog.op = "halt"
    /\ id <= Len(robot.moves)
    /\ id \in rlog.pre.intervals
    /\ robot.moves[id].st = "ticking"

\* The promise moveToLinearly returned for move id has settled.
MoveSettled(id) == id <= Len(robot.moves) /\ robot.moves[id].st = "done"

\* C36: a moveToLinearly whose interval was set when halt() was called
\* settles in the end.
C36_HaltedMoveSettles ==
    \A id \in 1..MaxRobotOps : HaltedWhileTicking(id) ~> MoveSettled(id)

----------------------------------------------------------------------------
(* Properties of overlapping moveToLinearly calls.                          *)

\* The tick of a move that has issued all its indices clears the interval of
\* that move and no other.
OwnIntervalCleared ==
    /\ rlog.op = "tick"
    /\ rlog.pre.currentStep[rlog.id] > robot.moves[rlog.id].numSteps
    => robot.intervals = rlog.pre.intervals \ {rlog.id}

\* After halt() no tick issues a rotateTo.
NoRotateToAfterHalt ==
    rlog.op = "tick" /\ robot.halts # <<>> =>
        robot.moves[rlog.id].currentStep = rlog.pre.currentStep[rlog.id]

\* C35: when a second moveToLinearly is called while the interval of the
\* first is set, each interval is cleared by its own tick past index N, and a
\* halt() stops both: after it no tick of either move calls rotateTo.
C35_OverlappingMovesStop == OwnIntervalCleared /\ NoRotateToAfterHalt

====
